---- MODULE Spec2Model ----
(***************************************************************************)
(* Model of the ECG monitor's per-frame callback update() of               *)
(* src/test1.py: the serial drain into the rolling sample buffer, the      *)
(* lead-off gate (rail / flatline), the thresholded beat detector with     *)
(* its refractory test, and the BPM / RR / Poincare histories.             *)
(*                                                                         *)
(* Time is counted in clock units, UnitsPerSec of them to the second; the  *)
(* code's thresholds in seconds (0.4, 0.3, 1.5, 3.0) are kept as tenths of *)
(* a second and compared by cross-multiplication, so no rounding enters.   *)
(* A BPM value 60/duration is the exact fraction <<60*UnitsPerSec, d>>.    *)
(*                                                                         *)
(* scipy's lfilter is not expressible here: the filtered window `clean` of *)
(* an OK frame is drawn from a small family of waveforms (Waves), and the  *)
(* percentile, the threshold and the comparison are computed on it as the  *)
(* code computes them.                                                     *)
(***************************************************************************)
EXTENDS Integers, Sequences, FiniteSets, TLC

\* ------------------------------------------------------------ bounds ----
UnitsPerSec == 20
MaxTime == 112
MaxBeats == 6
MaxFed == 302
MaxTimeFine == 76
MaxBeatsFine == 3
MaxFedFine == 302
MaxTimeStale == 160
MaxFedStale == 101
MaxTimeBuf == 58
MaxFedBuf == 1652
MaxTimeLong == 600
MaxBeatsLong == 52
MaxFedLong == 101
MaxTimeDrain == 103
MaxQueue == 3

\* ------------------------------------------------- program constants ----
window_size == 1500
rail_threshold == 300000
ClampLimit == 500000
\* variant: the analysis starts at 100 samples (`>=` for `>`)
MinAnalysisLenInclusive == 100 - 1

MinAnalysisLen == 100
RecentLen == 50
FlatlineThresholdInv == 10
BpmHistoryLen == 10
RrHistoryLen == 50
\* variant: the display starts one entry early
MinBpmCountFour == 5 - 1

MinBpmCount == 5
RefractoryTenths == 4
BandLowTenths == 3
BandHighTenths == 15
StaleTenths == 30
StartupSleepSec == 2
ThreshPermille == 700

VARIABLES
    ser,             \* lines waiting in the serial port, oldest first
    data_buffer,     \* deque(maxlen=window_size) of clamped raw samples
    bpm_history,     \* deque(maxlen=10) of instant BPM fractions
    rr_history_x,    \* deque(maxlen=50): previous interval of each pair
    rr_history_y,    \* deque(maxlen=50): current interval of each pair
    last_beat_time,  \* clock value of the last candidate
    beat_intervals,  \* list of accepted durations (clock units)
    status_text,     \* [kind, val, color] of the on-screen status
    line_wave,       \* the waveform handed to the plot (clean)
    now,             \* the clock, time.time()
    analysed,        \* the last frame went past `len(data_buffer) > 100`
    is_railed,       \* local of the last analysed frame
    is_flat,         \* local of the last analysed frame
    log,             \* rows the last frame appended to the csv file
    drained,         \* history: the lines the last frame read
    pushed,          \* history: every sample ever appended to data_buffer
    fed,             \* history: number of lines the device has written
    accepted_times,  \* history: clock values of the accepted beats
    pc               \* where update() is: "idle" between frames, "drain" in
                     \* its while-loop (used by SpecDrain only)

vars == <<ser, data_buffer, bpm_history, rr_history_x, rr_history_y,
          last_beat_time, beat_intervals, status_text, line_wave, now,
          analysed, is_railed, is_flat, log, drained, pushed, fed,
          accepted_times, pc>>

\* ---------------------------------------------------------- helpers ----
Abs(x) == IF x < 0 THEN -x ELSE x
Min(a, b) == IF a < b THEN a ELSE b
Max(a, b) == IF a > b THEN a ELSE b
Last(s) == s[Len(s)]
LastN(s, n) == SubSeq(s, Max(1, Len(s) - n + 1), Len(s))

RECURSIVE SumTo(_, _)
SumTo(s, n) == IF n = 0 THEN 0 ELSE s[n] + SumTo(s, n - 1)
SumSeq(s) == SumTo(s, Len(s))

\* variant: a full deque gives up its newest element instead of its oldest
DequeAppendDropNewest(d, x, maxlen) ==
    IF Len(d) >= maxlen THEN Append(SubSeq(d, 1, Len(d) - 1), x) ELSE Append(d, x)

\* deque(maxlen=n).append(x): the oldest element leaves when full
DequeAppend(d, x, maxlen) ==
    IF Len(d) >= maxlen THEN Append(Tail(d), x) ELSE Append(d, x)

\* ------------------------------------------------- the serial lines ----
\* A line after decode().strip(): `dashes` leading '-' characters followed
\* by a body that is all digits (of value mag) or is not.
Line(dashes, digits, mag) == [dashes |-> dashes, digits |-> digits, mag |-> mag]

\* raw_line.lstrip('-').isdigit()
LooksNumeric(l) == l.digits

\* int(raw_line): at most one sign is legal, otherwise ValueError (caught by
\* the bare except, the line is dropped)
IntParses(l) == l.dashes <= 1
IntOf(l) == IF l.dashes = 1 THEN -l.mag ELSE l.mag

\* variant: the clamp set at the rail threshold itself
ClampAtRail(val) == Max(-rail_threshold, Min(rail_threshold, val))

\* val = max(-500000, min(500000, val))
Clamp(val) == Max(-ClampLimit, Min(ClampLimit, val))

Accepts(l) == LooksNumeric(l) /\ IntParses(l)

\* one iteration of the while-loop body
ReadOne(buf, l) ==
    IF Accepts(l) THEN DequeAppend(buf, Clamp(IntOf(l)), window_size) ELSE buf

\* variant: one line per frame (`if` for `while`)
DrainFirstOnly(buf, q) ==
    IF q = <<>> THEN buf ELSE ReadOne(buf, q[1])

\* while ser.in_waiting: ... ; the lines are taken oldest first.  The queue
\* is split in halves only to keep the evaluation depth logarithmic; the
\* test on Len(b1) makes the first half complete before the second starts.
RECURSIVE Drain(_, _)
Drain(buf, q) ==
    IF q = <<>> THEN buf
    ELSE IF Len(q) = 1 THEN ReadOne(buf, q[1])
    ELSE LET h  == Len(q) \div 2
             b1 == Drain(buf, SubSeq(q, 1, h))
         IN  IF Len(b1) >= 0 THEN Drain(b1, SubSeq(q, h + 1, Len(q))) ELSE b1

\* ------------------------------------------------------ lead-off gate ----
\* is_railed = abs(current_raw) > rail_threshold
IsRailed(current_raw) == Abs(current_raw) > rail_threshold

\* deviation from the first sample, saturated at +/-50 so that the sums of
\* squares stay inside TLC's integers
Dev(recent, i) == Max(-50, Min(50, recent[i] - recent[1]))

\* variant: the flatline comparison the wrong way round
IsFlatInverted(recent) ==
    \E i \in 1..Len(recent) : recent[i] # recent[1]

\* statistics.stdev(recent_data) < flatline_threshold.  With n samples,
\* S1 the sum and S2 the sum of squares of the deviations, the sample
\* variance is (n*S2 - S1^2) / (n*(n-1)), and stdev < 1/10 iff
\* 100 * (n*S2 - S1^2) < n*(n-1).  n*S2 - S1^2 is the sum of the squared
\* pairwise differences, >= n-1 as soon as two samples differ, so for the
\* n = 50 integers of recent_data the saturation cannot change the answer.
\* stdev raises on fewer than two samples: is_flat = False.
IsFlat(recent) ==
    LET n  == Len(recent)
        S1 == SumSeq([i \in 1..n |-> Dev(recent, i)])
        S2 == SumSeq([i \in 1..n |-> Dev(recent, i) * Dev(recent, i)])
    IN  IF n < 2 THEN FALSE
        ELSE FlatlineThresholdInv * FlatlineThresholdInv * (n * S2 - S1 * S1)
                 < n * (n - 1)

\* ------------------------------------------------------ beat detector ----
\* the filtered window of an OK frame: n-1 samples at w[1], the newest at w[2]
Waves == { <<10, 7>>, <<10, 8>> }
Waveform(n, w) == [i \in 1..n |-> IF i = n THEN w[2] ELSE w[1]]

\* np.zeros(len(data_buffer))
Zeros(n) == [i \in 1..n |-> 0]

\* sorted(s)[k-1]: the k-th smallest element, found by counting
OrderStat(s, k) ==
    CHOOSE v \in { s[i] : i \in 1..Len(s) } :
        /\ Cardinality({ i \in 1..Len(s) : s[i] < v }) < k
        /\ Cardinality({ i \in 1..Len(s) : s[i] <= v }) >= k

\* 100 * np.percentile(clean, 95), linear interpolation between the two
\* order statistics around position 0.95 * (n-1)
P95x100(clean) ==
    LET pos == 95 * (Len(clean) - 1)
        k   == pos \div 100
        r   == pos % 100
        lo  == OrderStat(clean, k + 1)
    IN  IF r = 0 THEN 100 * lo
        ELSE 100 * lo + r * (OrderStat(clean, k + 2) - lo)

\* curr_val > thresh, with thresh = p95 * 0.70
AboveThresh(clean) == 100000 * Last(clean) > ThreshPermille * P95x100(clean)

\* variant: a refractory period of 0.2 s
PastRefractoryShort(elapsed) == 10 * elapsed > 2 * UnitsPerSec

\* (curr_time - last_beat_time) > 0.4
PastRefractory(elapsed) == 10 * elapsed > RefractoryTenths * UnitsPerSec

\* variant: the upper end of the band at 3 s
InBandWide(duration) ==
    /\ BandLowTenths * UnitsPerSec < 10 * duration
    /\ 10 * duration < 30 * UnitsPerSec

\* 0.3 < duration < 1.5
InBand(duration) ==
    /\ BandLowTenths * UnitsPerSec < 10 * duration
    /\ 10 * duration < BandHighTenths * UnitsPerSec

\* (curr_time - last_beat_time) > 3.0
PastStale(elapsed) == 10 * elapsed > StaleTenths * UnitsPerSec

\* instant_bpm = 60 / duration, duration in clock units
InstantBpm(duration) == <<60 * UnitsPerSec, duration>>

\* ------------------------------------------------ fractions, median ----
FracLess(a, b) == a[1] * b[2] < b[1] * a[2]
FracEq(a, b) == a[1] * b[2] = b[1] * a[2]
FracMean(a, b) == <<a[1] * b[2] + b[1] * a[2], 2 * a[2] * b[2]>>
\* int(x) for x >= 0
FracInt(a) == a[1] \div a[2]

\* statistics.median(data)
Median(data) ==
    LET s == SortSeq(data, FracLess)
        n == Len(s)
    IN  IF n % 2 = 1 THEN s[(n + 1) \div 2]
        ELSE FracMean(s[n \div 2], s[n \div 2 + 1])

\* ----------------------------------------------------------- status ----
Status(kind, val, color) == [kind |-> kind, val |-> val, color |-> color]

\* "BPM" in status_text.get_text()
ShowsBpm(st) == st.kind = "BPM"

LogRow(raw, filtered, bpm, tag) ==
    [raw |-> raw, filtered |-> filtered, bpm |-> bpm, status |-> tag]

\* the quality state a frame's locals stand for (RAILED before FLAT)
Quality ==
    IF ~analysed THEN "NONE"
    ELSE IF is_railed THEN "RAILED"
    ELSE IF is_flat THEN "FLAT"
    ELSE "OK"

\* -------------------------------------------------------------- Init ----
\* module load sets last_beat_time = time.time(); the first frame comes
\* after the 2 s sleep that follows opening the port.
Init ==
    /\ ser = <<>>
    /\ data_buffer = <<>>
    /\ bpm_history = <<>>
    /\ rr_history_x = <<>>
    /\ rr_history_y = <<>>
    /\ last_beat_time = 0
    /\ beat_intervals = <<>>
    /\ status_text = Status("init", 0, "white")
    /\ line_wave = <<>>
    /\ now = StartupSleepSec * UnitsPerSec
    /\ analysed = FALSE
    /\ is_railed = FALSE
    /\ is_flat = FALSE
    /\ log = <<>>
    /\ drained = <<>>
    /\ pushed = <<>>
    /\ fed = 0
    /\ accepted_times = <<>>
    /\ pc = "idle"

\* ----------------------------------------------------------- actions ----
\* the device writes a batch of lines to the port
Feed(batch) ==
    /\ ser' = ser \o batch
    /\ fed' = fed + Len(batch)
    /\ UNCHANGED <<data_buffer, bpm_history, rr_history_x, rr_history_y,
                   last_beat_time, beat_intervals, status_text, line_wave,
                   now, analysed, is_railed, is_flat, log, drained, pushed,
                   accepted_times>>

\* history only: the samples a frame appends, in the order read
AcceptedOf(q) ==
    LET ok == SelectSeq(q, Accepts)
    IN  [i \in 1..Len(ok) |-> Clamp(IntOf(ok[i]))]

\* variant: the lead-off branch without bpm_history.clear()
LeadsOffNoClear(buf, railed, flat) ==
    /\ status_text' = IF railed THEN Status("RAIL", Last(buf), "yellow")
                      ELSE Status("FLAT", 0, "yellow")
    /\ line_wave' = Zeros(Len(buf))
    /\ log' = << LogRow(Last(buf), 0, <<0, 1>>, "LEADS_OFF") >>
    /\ UNCHANGED <<bpm_history, rr_history_x, rr_history_y, last_beat_time,
                   beat_intervals, accepted_times>>

\* the `if is_railed or is_flat:` branch
LeadsOff(buf, railed, flat) ==
    /\ status_text' = IF railed THEN Status("RAIL", Last(buf), "yellow")
                      ELSE Status("FLAT", 0, "yellow")
    /\ bpm_history' = <<>>
    /\ line_wave' = Zeros(Len(buf))
    /\ log' = << LogRow(Last(buf), 0, <<0, 1>>, "LEADS_OFF") >>
    /\ UNCHANGED <<rr_history_x, rr_history_y, last_beat_time,
                   beat_intervals, accepted_times>>

\* variant: last_beat_time moves only when the beat is accepted (the
\* assignment placed inside the duration test)
DetectAdvanceOnBeat(buf, curr_time, w, above) ==
    LET clean    == Waveform(Len(buf), w)
        elapsed  == curr_time - last_beat_time
        cand     == above /\ PastRefractory(elapsed)
        duration == elapsed
        beat     == cand /\ InBand(duration)
        hist     == DequeAppend(bpm_history, InstantBpm(duration), BpmHistoryLen)
    IN  /\ line_wave' = clean
        /\ last_beat_time' = IF beat THEN curr_time ELSE last_beat_time
        /\ bpm_history' = IF beat THEN hist ELSE bpm_history
        /\ status_text' =
              IF beat
              THEN IF Len(hist) >= MinBpmCount
                   THEN Status("BPM", FracInt(Median(hist)), "red")
                   ELSE Status("calc", 0, "white")
              ELSE IF ~cand /\ PastStale(elapsed) /\ ShowsBpm(status_text)
                   THEN [status_text EXCEPT !.color = "white"]
                   ELSE status_text
        /\ rr_history_x' =
              IF beat /\ Len(beat_intervals) > 0
              THEN DequeAppend(rr_history_x, Last(beat_intervals), RrHistoryLen)
              ELSE rr_history_x
        /\ rr_history_y' =
              IF beat /\ Len(beat_intervals) > 0
              THEN DequeAppend(rr_history_y, duration, RrHistoryLen)
              ELSE rr_history_y
        /\ beat_intervals' =
              IF beat THEN Append(beat_intervals, duration) ELSE beat_intervals
        /\ log' = IF beat
                  THEN << LogRow(Last(buf), Last(clean), InstantBpm(duration), "BEAT") >>
                  ELSE <<>>
        /\ accepted_times' =
              IF beat THEN Append(accepted_times, curr_time) ELSE accepted_times

\* the `else:` branch: filter, threshold, beat bookkeeping
Detect(buf, curr_time, w, above) ==
    LET clean    == Waveform(Len(buf), w)
        elapsed  == curr_time - last_beat_time
        cand     == above /\ PastRefractory(elapsed)
        duration == elapsed
        beat     == cand /\ InBand(duration)
        hist     == DequeAppend(bpm_history, InstantBpm(duration), BpmHistoryLen)
    IN  /\ line_wave' = clean
        /\ last_beat_time' = IF cand THEN curr_time ELSE last_beat_time
        /\ bpm_history' = IF beat THEN hist ELSE bpm_history
        /\ status_text' =
              IF beat
              THEN IF Len(hist) >= MinBpmCount
                   THEN Status("BPM", FracInt(Median(hist)), "red")
                   ELSE Status("calc", 0, "white")
              ELSE IF ~cand /\ PastStale(elapsed) /\ ShowsBpm(status_text)
                   THEN [status_text EXCEPT !.color = "white"]
                   ELSE status_text
        /\ rr_history_x' =
              IF beat /\ Len(beat_intervals) > 0
              THEN DequeAppend(rr_history_x, Last(beat_intervals), RrHistoryLen)
              ELSE rr_history_x
        /\ rr_history_y' =
              IF beat /\ Len(beat_intervals) > 0
              THEN DequeAppend(rr_history_y, duration, RrHistoryLen)
              ELSE rr_history_y
        /\ beat_intervals' =
              IF beat THEN Append(beat_intervals, duration) ELSE beat_intervals
        /\ log' = IF beat
                  THEN << LogRow(Last(buf), Last(clean), InstantBpm(duration), "BEAT") >>
                  ELSE <<>>
        /\ accepted_times' =
              IF beat THEN Append(accepted_times, curr_time) ELSE accepted_times

\* one call of update(frame), dt clock units after the previous one.  The
\* values the code computes once (the drained buffer, is_railed, is_flat,
\* curr_val > thresh) are bound once.
Tick(dt, w) ==
    \E buf \in { Drain(data_buffer, ser) } :
        /\ now' = now + dt
        /\ ser' = <<>>
        /\ drained' = ser
        /\ data_buffer' = buf
        /\ pushed' = pushed \o AcceptedOf(ser)
        /\ fed' = fed
        /\ IF Len(buf) > MinAnalysisLen
           THEN \E railed \in { IsRailed(Last(buf)) },
                   flat \in { IsFlat(LastN(buf, RecentLen)) } :
                    /\ analysed' = TRUE
                    /\ is_railed' = railed
                    /\ is_flat' = flat
                    /\ IF railed \/ flat
                       THEN LeadsOff(buf, railed, flat)
                       ELSE \E above \in { AboveThresh(Waveform(Len(buf), w)) } :
                                Detect(buf, now + dt, w, above)
           ELSE /\ analysed' = FALSE
                /\ log' = <<>>
                /\ UNCHANGED <<bpm_history, rr_history_x, rr_history_y,
                               last_beat_time, beat_intervals, status_text,
                               line_wave, is_railed, is_flat, accepted_times>>

\* -------------------------------------------------- specifications ----
\* n copies of line l
Run(l, n) == [i \in 1..n |-> l]

\* the line the device prints for the integer v
Sample(v) == Line(IF v < 0 THEN 1 ELSE 0, TRUE, Abs(v))

FeedFrom(batches, maxFed) ==
    \E b \in batches : fed + Len(b) <= maxFed /\ Feed(b) /\ pc' = pc

TickFrom(dts, maxTime, maxBeats) ==
    \E dt \in dts, w \in Waves :
        /\ now + dt <= maxTime
        /\ Len(beat_intervals) < maxBeats
        /\ Tick(dt, w)
        /\ pc' = pc

\* Spec: the beat bookkeeping at one frame every 0.45 s, over a buffer that
\* moves between "not enough data", OK, RAILED and FLAT.
GoodBatch == Run(Sample(100), 100) \o << Sample(101) >>
RailBatch == Run(Sample(100), 99) \o << Sample(400000) >>
FlatBatch == Run(Sample(100), 100)
Batches == { GoodBatch, RailBatch, FlatBatch }
Dts == { 9 }

Next == FeedFrom(Batches, MaxFed) \/ TickFrom(Dts, MaxTime, MaxBeats)
Spec == Init /\ [][Next]_vars

\* SpecFine: frames 0.35 s or 0.45 s apart, so that elapsed times fall on
\* both sides of the refractory period.
BatchesFine == { GoodBatch, RailBatch }
DtsFine == { 7, 9 }

NextFine ==
    \/ FeedFrom(BatchesFine, MaxFedFine)
    \/ TickFrom(DtsFine, MaxTimeFine, MaxBeatsFine)
SpecFine == Init /\ [][NextFine]_vars

\* SpecStale: a good signal, with frames 0.45 s or a little over 3 s apart.
BatchesStale == { GoodBatch }
DtsStale == { 9, 3 * UnitsPerSec + 1 }

NextStale ==
    \/ FeedFrom(BatchesStale, MaxFedStale)
    \/ TickFrom(DtsStale, MaxTimeStale, MaxBeats)
SpecStale == Init /\ [][NextStale]_vars

\* SpecBuf: the drain and the gate over a full-size buffer, fed in
\* batches of a little over a third of the window: a ramp, constant runs
\* within and beyond the rail threshold (and beyond the clamp), runs that
\* end on either side of the rail threshold, and a run that ends with a
\* railed sample, two malformed lines and a normal sample.
BufBatchLen == window_size \div 3 + 50
RampBatch == [i \in 1..BufBatchLen |-> Sample(i)]
BatchesBuf ==
    { RampBatch,
      Run(Sample(100), BufBatchLen),
      Run(Sample(-1000000), BufBatchLen),
      Run(Sample(100), BufBatchLen - 1) \o << Sample(300000) >>,
      Run(Sample(100), BufBatchLen - 1) \o << Sample(300001) >>,
      Run(Sample(100), BufBatchLen - 4)
          \o << Sample(1000000), Line(2, TRUE, 5), Line(0, FALSE, 0), Sample(100) >> }
DtsBuf == { 9 }

NextBuf ==
    \/ FeedFrom(BatchesBuf, MaxFedBuf)
    \/ TickFrom(DtsBuf, MaxTimeBuf, MaxBeats)
SpecBuf == Init /\ [][NextBuf]_vars

\* SpecLong: a long regular beat train.  Once the signal is there every
\* frame ends on a peak, and the frames come alternately 0.45 s and 0.5 s
\* apart, so that consecutive intervals differ and more beats are accepted
\* than the bounded histories hold.
PeakWave == << 10, 8 >>
TrainDt(n) == 9 + (n % 2)

TickTrain(maxTime, maxBeats) ==
    \E dt \in { TrainDt(Len(beat_intervals)) } :
        /\ now + dt <= maxTime
        /\ Len(beat_intervals) < maxBeats
        /\ Tick(dt, PeakWave)
        /\ pc' = pc

NextLong ==
    \/ FeedFrom({ GoodBatch }, MaxFedLong)
    \/ TickTrain(MaxTimeLong, MaxBeatsLong)
SpecLong == Init /\ [][NextLong]_vars

\* SpecDrain: update() taken one pass of its while-loop at a time, with the
\* device writing to the port while the loop runs.  It starts in the state
\* SpecBuf is in after three constant batches and one frame (a full buffer
\* of equal samples), so that further samples leave the buffer as it is;
\* the history variables drained, pushed and fed follow whole frames only
\* and are not kept by the single passes.
InitDrain ==
    /\ ser = <<>>
    /\ data_buffer = Run(100, window_size)
    /\ bpm_history = <<>>
    /\ rr_history_x = <<>>
    /\ rr_history_y = <<>>
    /\ last_beat_time = 0
    /\ beat_intervals = <<>>
    /\ status_text = Status("FLAT", 0, "yellow")
    /\ line_wave = Zeros(window_size)
    /\ now = StartupSleepSec * UnitsPerSec + 9
    /\ analysed = TRUE
    /\ is_railed = FALSE
    /\ is_flat = TRUE
    /\ log = << LogRow(100, 0, <<0, 1>>, "LEADS_OFF") >>
    /\ drained = Run(Sample(100), 3 * BufBatchLen)
    /\ pushed = Run(100, 3 * BufBatchLen)
    /\ fed = 3 * BufBatchLen
    /\ accepted_times = <<>>
    /\ pc = "idle"

\* FuncAnimation calls update(); a frame starts only if the clock bound
\* leaves room for it to end
FrameStart(dt) ==
    /\ pc = "idle"
    /\ now + dt <= MaxTimeDrain
    /\ pc' = "drain"
    /\ UNCHANGED <<ser, data_buffer, bpm_history, rr_history_x, rr_history_y,
                   last_beat_time, beat_intervals, status_text, line_wave,
                   now, analysed, is_railed, is_flat, log, drained, pushed,
                   fed, accepted_times>>

\* `while ser.in_waiting:` finds a line: one pass of the loop body
DrainStep ==
    /\ pc = "drain"
    /\ ser # <<>>
    /\ data_buffer' = ReadOne(data_buffer, Head(ser))
    /\ ser' = Tail(ser)
    /\ UNCHANGED <<bpm_history, rr_history_x, rr_history_y, last_beat_time,
                   beat_intervals, status_text, line_wave, now, analysed,
                   is_railed, is_flat, log, drained, pushed, fed,
                   accepted_times, pc>>

\* `while ser.in_waiting:` finds the port empty: the rest of update()
FrameEnd(dt, w) ==
    /\ pc = "drain"
    /\ ser = <<>>
    /\ Tick(dt, w)
    /\ pc' = "idle"

\* the device writes one line, at any moment, while the port has room
DeviceWrite(l) ==
    /\ Len(ser) < MaxQueue
    /\ ser' = Append(ser, l)
    /\ UNCHANGED <<data_buffer, bpm_history, rr_history_x, rr_history_y,
                   last_beat_time, beat_intervals, status_text, line_wave,
                   now, analysed, is_railed, is_flat, log, drained, pushed,
                   fed, accepted_times, pc>>

LinesDrain == { Sample(100), Line(0, FALSE, 0) }
DtsDrain == { 9 }

\* the steps of the thread that runs update(): once in the loop it always
\* has a next step, and it takes it
FrameStep == DrainStep \/ \E dt \in DtsDrain, w \in Waves : FrameEnd(dt, w)

NextDrain ==
    \/ \E dt \in DtsDrain : FrameStart(dt)
    \/ FrameStep
    \/ \E l \in LinesDrain : DeviceWrite(l)
SpecDrain == InitDrain /\ [][NextDrain]_vars /\ WF_vars(FrameStep)

\* ------------------------------------------------------- properties ----
HasRow(tag) == \E i \in 1..Len(log) : log[i].status = tag
LowQuality == Quality \in { "RAILED", "FLAT" }
\* a frame ran in this step (the clock moves in no other step)
Ticked == now' # now

\* C1: any two consecutively accepted beats are at least the refractory
\* period (0.4 s) apart, whatever was rejected or skipped between them.
C1_RefractoryGap ==
    \A i \in 1..(Len(accepted_times) - 1) :
        10 * (accepted_times[i + 1] - accepted_times[i]) >= 4 * UnitsPerSec

\* two accepted beats, the second one right after a lead-off frame, with a
\* candidate rejected as out of band before them
C1_Witness ==
    /\ Len(accepted_times) >= 2
    /\ HasRow("BEAT")
    /\ Len(bpm_history) = 1
    /\ accepted_times[1] - beat_intervals[1] > 0

\* C2 as stated: a frame that reads any sample beyond the rail threshold
\* reports RAILED, wherever that sample stands among the lines read and
\* however full the buffer is.
C2_Original ==
    (\E i \in 1..Len(drained) :
        Accepts(drained[i]) /\ Abs(IntOf(drained[i])) > 300000)
    => Quality = "RAILED"

\* C2 amended: a frame whose buffer holds more than 100 samples and whose
\* last accepted sample is beyond the rail threshold reports RAILED,
\* whatever came before it and whatever the clamp did to it.
C2_LastSampleRailed ==
    LET acc == SelectSeq(drained, Accepts)
    IN  (/\ Len(data_buffer) > 100
         /\ acc # <<>>
         /\ Abs(IntOf(Last(acc))) > 300000)
        => Quality = "RAILED"

\* a clamped sample closes a frame that also evicted old samples
C2_Witness ==
    /\ Quality = "RAILED"
    /\ drained # <<>>
    /\ Accepts(Last(drained))
    /\ Abs(IntOf(Last(drained))) > 500000
    /\ Len(pushed) > Len(data_buffer)

ConstantTail(s, n) ==
    /\ Len(s) >= n
    /\ \A i \in (Len(s) - n + 1)..Len(s) : s[i] = s[Len(s)]

\* C3 as stated: every analysed window of constant amplitude is reported
\* FLAT.
C3_Original ==
    (Len(data_buffer) > 100 /\ ConstantTail(data_buffer, 50))
    => Quality = "FLAT"

\* C3 amended: when the buffer holds more than 100 samples and its last 50
\* are equal, the frame reports FLAT if that amplitude is within the rail
\* threshold and RAILED if it is beyond it.
C3_ConstantWindow ==
    (Len(data_buffer) > 100 /\ ConstantTail(data_buffer, 50))
    => /\ is_flat
       /\ Quality = (IF Abs(Last(data_buffer)) > 300000 THEN "RAILED" ELSE "FLAT")

C3_Witness ==
    /\ Quality = "FLAT"
    /\ Len(data_buffer) > 100
    /\ ConstantTail(data_buffer, 50)
    /\ status_text.kind = "FLAT"

\* C4: a frame that reports RAILED or FLAT leaves last_beat_time, the RR
\* list and the Poincare histories as they were, logs no beat, ends with an
\* empty BPM history and exposes an all-zero waveform.
C4_LowQualityFrame ==
    [][ (Ticked /\ LowQuality')
        => /\ last_beat_time' = last_beat_time
           /\ beat_intervals' = beat_intervals
           /\ rr_history_x' = rr_history_x
           /\ rr_history_y' = rr_history_y
           /\ accepted_times' = accepted_times
           /\ ~HasRow("BEAT")'
           /\ ~HasRow("PVC_DETECTED")'
           /\ bpm_history' = <<>>
           /\ Len(line_wave') = Len(data_buffer')
           /\ \A i \in 1..Len(line_wave') : line_wave'[i] = 0 ]_vars

\* a lead-off frame after beats had been accepted
C4_Witness ==
    /\ LowQuality
    /\ Len(beat_intervals) >= 2
    /\ rr_history_x # <<>>
    /\ bpm_history = <<>>
    /\ HasRow("LEADS_OFF")

\* C5 as stated: a displayed BPM number is the median of the BPM history,
\* which then holds at least 5 entries; with fewer than 5 no number shows.
C5_Original ==
    /\ ShowsBpm(status_text)
         => /\ Len(bpm_history) >= 5
            /\ FracEq(<<status_text.val, 1>>, Median(bpm_history))
    /\ Len(bpm_history) < 5 => ~ShowsBpm(status_text)

\* C5 amended: the displayed number is the integer part of the median.
C5_TruncatedMedian ==
    /\ ShowsBpm(status_text)
         => /\ Len(bpm_history) >= 5
            /\ status_text.val = FracInt(Median(bpm_history))
    /\ Len(bpm_history) < 5 => ~ShowsBpm(status_text)

\* a number on display whose median is not whole
C5_Witness ==
    /\ ShowsBpm(status_text)
    /\ ~FracEq(<<status_text.val, 1>>, Median(bpm_history))

\* C6: an accepted beat that follows at least one earlier interval is
\* flagged premature (a PVC row is logged) exactly when its interval is
\* below 0.8 times the mean of the earlier intervals.
C6_PrematureFlag ==
    (HasRow("BEAT") /\ Len(beat_intervals) >= 2)
    => LET n    == Len(beat_intervals)
           prev == SubSeq(beat_intervals, 1, n - 1)
       IN  HasRow("PVC_DETECTED")
             <=> (10 * beat_intervals[n] * (n - 1) < 8 * SumSeq(prev))

\* |a - b| <= t for fractions a, b
FracWithin(a, b, t) == Abs(a[1] * b[2] - b[1] * a[2]) <= t * a[2] * b[2]

\* C7: a value enters the BPM history only while the history holds fewer
\* than 5 entries or when it is within 30 BPM of the median of the history
\* as it was.
C7_Smoothing ==
    [][ (bpm_history' # bpm_history /\ bpm_history' # <<>>)
        => \/ Len(bpm_history) < 5
           \/ FracWithin(Last(bpm_history'), Median(bpm_history), 30) ]_vars

\* C8: every value in the BPM history is 60 / elapsed-seconds of its beat
\* and lies within 30..200 BPM; a candidate outside 30..200 BPM leaves the
\* BPM, RR and Poincare histories as they were.
C8_BandInv ==
    \A i \in 1..Len(bpm_history) :
        /\ 30 * bpm_history[i][2] <= bpm_history[i][1]
        /\ bpm_history[i][1] <= 200 * bpm_history[i][2]
C8_BandStep ==
    LET elapsed == now' - last_beat_time
    IN  /\ (bpm_history' # bpm_history /\ bpm_history' # <<>>)
            => /\ Last(bpm_history')[1] = 60 * UnitsPerSec
               /\ Last(bpm_history')[2] = elapsed
               /\ last_beat_time' = now'
        /\ (/\ last_beat_time' # last_beat_time
            /\ (60 * UnitsPerSec < 30 * elapsed \/ 60 * UnitsPerSec > 200 * elapsed))
            => UNCHANGED <<bpm_history, beat_intervals, rr_history_x, rr_history_y>>
C8_PlausibleBand == []C8_BandInv /\ [][C8_BandStep]_vars

\* a beat accepted after the first, out-of-band candidate was thrown away
C8_Witness ==
    /\ HasRow("BEAT")
    /\ bpm_history # <<>>
    /\ accepted_times[1] - beat_intervals[1] > 0

\* C9: once more than 3 s have passed since the last accepted beat, the
\* frame leaves no BPM number on display as current.
C9_StaleDisplay ==
    (accepted_times # <<>> /\ 10 * (now - Last(accepted_times)) > 30 * UnitsPerSec)
    => ~(ShowsBpm(status_text) /\ status_text.color = "red")

\* C10: the buffer never exceeds window_size samples and always equals the
\* most recent min(n, window_size) accepted samples, in arrival order.
C10_RollingWindow ==
    /\ Len(data_buffer) <= 1500
    /\ data_buffer = LastN(pushed, Min(Len(pushed), 1500))

\* samples have been evicted
C10_Witness ==
    /\ Len(pushed) > 1500
    /\ Len(data_buffer) = 1500
    /\ data_buffer[1] # pushed[1]
\* C11: the RR-interval history never holds more than 50 intervals, however
\* many beats are accepted.  beat_intervals is a plain list: it grows with
\* every accepted beat.
C11_RrHistoryBounded == Len(beat_intervals) <= 50

\* C12: a frame that ends with 100 samples or fewer in the buffer assesses
\* no quality, accepts no beat, writes no log row and leaves last_beat_time,
\* the BPM history, the RR list, the Poincare histories and the status as
\* they were.
C12_Step ==
    Ticked /\ Len(data_buffer') <= 100
        => /\ ~analysed'
           /\ log' = <<>>
           /\ UNCHANGED <<last_beat_time, bpm_history, beat_intervals,
                          rr_history_x, rr_history_y, accepted_times,
                          status_text, line_wave>>
C12_NoAnalysisBelowMinimum == [][C12_Step]_vars

\* a frame has read lines and left exactly 100 samples, unanalysed
C12_Witness ==
    /\ Len(data_buffer) = 100
    /\ drained # <<>>
    /\ ~analysed
    /\ status_text.kind = "init"

\* C13: a frame empties the port before it analyses: every pending line
\* that is well formed (all digits after at most one leading '-') is
\* appended to the buffer in arrival order, and a malformed line is skipped
\* without changing the buffer or ending the drain.
WellFormed(l) == l.digits /\ l.dashes <= 1
C13_Step ==
    Ticked =>
        LET kept == SelectSeq(ser, WellFormed)
            vals == [i \in 1..Len(kept) |-> Clamp(IntOf(kept[i]))]
        IN  /\ ser' = <<>>
            /\ drained' = ser
            /\ data_buffer' = LastN(data_buffer \o vals, window_size)
            /\ pushed' = pushed \o vals
C13_DrainUntilEmpty == [][C13_Step]_vars

\* a frame read two malformed lines in the middle of its input and appended
\* the well-formed lines on both sides of them
C13_Witness ==
    \E i \in 3..(Len(drained) - 1) :
        /\ ~WellFormed(drained[i])
        /\ WellFormed(drained[i - 2])
        /\ WellFormed(Last(drained))
        /\ Len(data_buffer) >= 2
        /\ Last(data_buffer) = Clamp(IntOf(Last(drained)))
        /\ data_buffer[Len(data_buffer) - 1] = Clamp(IntOf(drained[i - 2]))
        /\ IntOf(drained[i - 2]) # IntOf(Last(drained))

\* C14: every frame appends one row to the event log and one more row for
\* a beat it accepts (on a lead-off frame: the frame's row, with or without
\* a separate alert row), and every row carries one of the tags "", "BEAT",
\* "PVC_DETECTED", "LEADS_OFF".
C14_Step ==
    Ticked =>
        LET beats == IF accepted_times' # accepted_times THEN 1 ELSE 0
        IN  /\ IF LowQuality'
               THEN Len(log') \in { 1, 2 }
               ELSE Len(log') = 1 + beats
            /\ \A i \in 1..Len(log') :
                   log'[i].status \in { "", "BEAT", "PVC_DETECTED", "LEADS_OFF" }
C14_RowPerTick == [][C14_Step]_vars

\* C16: on a frame of good signal, (a) an above-threshold sample more than
\* 1.5 s after last_beat_time is not accepted but moves last_beat_time to
\* the frame's time, (b) an above-threshold sample more than 0.4 s and less
\* than 1.5 s after last_beat_time is accepted as a beat with that interval,
\* and (c) a sample at or below the threshold, or within 0.4 s, leaves
\* last_beat_time alone; a frame that does not run the detector leaves it
\* alone as well.  By (a) and (b) the sample after a long gap restarts the
\* detector.
C16_Step ==
    Ticked =>
        LET elapsed == now' - last_beat_time
            ok      == analysed' /\ ~is_railed' /\ ~is_flat'
            above   == ok /\ AboveThresh(line_wave')
            accepts == /\ accepted_times' = Append(accepted_times, now')
                       /\ beat_intervals' = Append(beat_intervals, elapsed)
            rejects == /\ accepted_times' = accepted_times
                       /\ beat_intervals' = beat_intervals
                       /\ bpm_history' = bpm_history
        IN  /\ above /\ 10 * elapsed > 15 * UnitsPerSec
                => last_beat_time' = now' /\ rejects
            /\ above /\ 10 * elapsed > 4 * UnitsPerSec
                     /\ 10 * elapsed < 15 * UnitsPerSec
                => last_beat_time' = now' /\ accepts
            /\ ~above \/ 10 * elapsed <= 4 * UnitsPerSec
                => last_beat_time' = last_beat_time /\ accepted_times' = accepted_times
C16_RestartAfterGap == [][C16_Step]_vars

\* the only accepted beat so far follows a candidate that was discarded
\* more than 1.5 s after start-up and that moved last_beat_time
C16_Witness ==
    /\ Len(accepted_times) = 1
    /\ Len(beat_intervals) = 1
    /\ 10 * (accepted_times[1] - beat_intervals[1]) > 15 * UnitsPerSec
    /\ last_beat_time = accepted_times[1]

\* C17: the two Poincare histories have the same length, at most 50; the
\* first accepted beat adds no pair and every later one adds one; the pairs
\* held are (previous accepted interval, accepted interval) of the latest
\* accepted beats in order, so the y of each pair is the x of the next.
C17_PoincarePairs ==
    LET n == Len(beat_intervals)
        k == Len(rr_history_x)
    IN  /\ Len(rr_history_y) = k
        /\ k <= 50
        /\ k = Min(Max(n - 1, 0), 50)
        /\ \A i \in 1..k :
               /\ rr_history_x[i] = beat_intervals[n - k + i - 1]
               /\ rr_history_y[i] = beat_intervals[n - k + i]
        /\ \A i \in 1..(k - 1) : rr_history_y[i] = rr_history_x[i + 1]

\* the histories are full, the oldest pair has been evicted, and the pairs
\* held join intervals of different lengths
C17_Witness ==
    /\ Len(rr_history_x) = 50
    /\ Len(beat_intervals) > 51
    /\ rr_history_x[1] # rr_history_y[1]
    /\ rr_history_y[49] = rr_history_x[50]

\* C18: after a frame that assessed the signal, the status shown is that
\* frame's: no lead-off text after a frame assessed OK, the lead-off text
\* after a frame assessed RAILED or FLAT.
ShowsLeadsOff == status_text.kind \in { "RAIL", "FLAT" }
C18_StatusOfThisFrame ==
    /\ Quality = "OK" => ~ShowsLeadsOff
    /\ LowQuality => ShowsLeadsOff

\* C19: every frame ends: once update() is in its drain loop it eventually
\* leaves it and finishes, also while the device keeps writing.
C19_FrameEnds == (pc = "drain") ~> (pc = "idle")

====
